---- MODULE Spec2Model ----
(***************************************************************************)
(* Model of the "Git Commit AI" VSCode extension (out/extension.js, the    *)
(* build of src/extension.ts that carries the per-language prompts).       *)
(*                                                                         *)
(* Two commands are modelled: gitCommitButton.generateCommitMessage        *)
(* (getGitDiff -> callAI -> setCommitMessage under a progress indicator)   *)
(* and gitCommitButton.fetchModels (fetchAndUpdateModels).  Every `await`  *)
(* on a subprocess, an HTTP exchange, a body read, a dialog or an async    *)
(* function of the extension is a step boundary.  Strings are sequences of *)
(* characters; JavaScript values are tagged records, so that trimming,     *)
(* truthiness and property access are computed as the runtime computes     *)
(* them.                                                                   *)
(***************************************************************************)
EXTENDS Integers, Sequences, FiniteSets, TLC

----------------------------------------------------------------------------
(* Bounds of the model *)

\* longest subprocess output / response text, in characters
MaxLen == 2
\* number of command invocations that have their own frame
NumRuns == 1
\* largest number of repositories the Git integration exposes
MaxRepos == 2

Runs == 1..NumRuns

\* characters of the texts: one printable character and one white space
Char == {"a", " "}
WhiteSpace == {" "}

RECURSIVE StringsUpTo(_)
StringsUpTo(n) ==
    IF n = 0 THEN {<<>>}
    ELSE LET shorter == StringsUpTo(n - 1)
         IN  shorter \cup {Append(s, c) : s \in {x \in shorter : Len(x) = n - 1}, c \in Char}

Texts == StringsUpTo(MaxLen)

----------------------------------------------------------------------------
(* JavaScript values *)

Undef == [t |-> "undef"]
Null == [t |-> "null"]
Num(n) == [t |-> "num", v |-> n]
Str(s) == [t |-> "str", v |-> s]
Arr(s) == [t |-> "arr", v |-> s]
Obj(r) == [t |-> "obj", v |-> r]

\* a settled promise / the outcome of evaluating an expression
Ok(v) == [ok |-> TRUE, v |-> v]
Throw(e) == [ok |-> FALSE, e |-> e]

NoCause == [name |-> "none"]
\* new Error(msg), the message interpolating the parts and String(cause)
MkError(name, msg, parts, cause) ==
    [name |-> name, msg |-> msg, parts |-> parts, cause |-> cause]
NoParts == [none |-> TRUE]
Error(msg) == MkError("Error", msg, NoParts, NoCause)
TypeError(msg) == MkError("TypeError", msg, NoParts, NoCause)
SyntaxError(msg) == MkError("SyntaxError", msg, NoParts, NoCause)

\* the text of the error e, causes included, interpolates value v as part f
RECURSIVE Carries(_, _, _)
Carries(e, f, v) ==
    /\ e.name # "none"
    /\ \/ f \in DOMAIN e.parts /\ e.parts[f] = v
       \/ Carries(e.cause, f, v)

\* the text of the error e, causes included, interpolates some part f
RECURSIVE HasPart(_, _)
HasPart(e, f) ==
    /\ e.name # "none"
    /\ \/ f \in DOMAIN e.parts
       \/ HasPart(e.cause, f)

\* the text of the error e, causes included, contains the message m
RECURSIVE ErrorSays(_, _)
ErrorSays(e, m) ==
    /\ e.name # "none"
    /\ \/ e.msg = m
       \/ ErrorSays(e.cause, m)

\* String.prototype.trim
RECURSIVE TrimStart(_)
TrimStart(s) ==
    IF s = <<>> THEN s
    ELSE IF Head(s) \in WhiteSpace THEN TrimStart(Tail(s)) ELSE s

RECURSIVE TrimEnd(_)
TrimEnd(s) ==
    IF s = <<>> THEN s
    ELSE IF s[Len(s)] \in WhiteSpace THEN TrimEnd(SubSeq(s, 1, Len(s) - 1)) ELSE s

Trim(s) == TrimEnd(TrimStart(s))

\* ToBoolean
Truthy(x) ==
    CASE x.t = "undef" -> FALSE
      [] x.t = "null" -> FALSE
      [] x.t = "num" -> x.v # 0
      [] x.t = "str" -> x.v # <<>>
      [] OTHER -> TRUE

Nullish(x) == x.t \in {"undef", "null"}

\* x.k : a TypeError on null and undefined, undefined when the key is absent
GetProp(x, k) ==
    IF Nullish(x) THEN Throw(TypeError("Cannot read properties"))
    ELSE IF x.t = "obj" /\ k \in DOMAIN x.v THEN Ok(x.v[k])
    ELSE Ok(Undef)

\* x[0] on a value that is neither null nor undefined: the first element of
\* an array, the first character of a string, the own property "0" of an
\* object
Index0(x) ==
    IF x.t = "arr" /\ Len(x.v) > 0 THEN x.v[1]
    ELSE IF x.t = "str" /\ Len(x.v) > 0 THEN Str(<<x.v[1]>>)
    ELSE IF x.t = "obj" /\ "0" \in DOMAIN x.v THEN x.v["0"]
    ELSE Undef

\* the members every object literal inherits from Object.prototype; each
\* is a function or an object, hence truthy and not nullish
ObjectPrototypeKeys ==
    {"constructor", "__proto__", "hasOwnProperty", "isPrototypeOf",
     "propertyIsEnumerable", "toLocaleString", "toString", "valueOf",
     "__defineGetter__", "__defineSetter__", "__lookupGetter__", "__lookupSetter__"}

\* the member of Object.prototype named k
Inherited(k) == [t |-> "inherited", v |-> k]

\* a < b for a number a: false when b is no number (a name or a function
\* converts to NaN)
Less(a, b) == a.t = "num" /\ b.t = "num" /\ a.v < b.v

\* x?.k
OptProp(x, k) == IF Nullish(x) THEN Undef ELSE GetProp(x, k).v

\* x?.trim()
OptTrim(x) ==
    IF Nullish(x) THEN Ok(Undef)
    ELSE IF x.t = "str" THEN Ok(Str(Trim(x.v)))
    ELSE Throw(TypeError("trim is not a function"))

----------------------------------------------------------------------------
(* Logger *)

\* the numeric enum: the names map to the numbers and the numbers, as
\* keys, back to the names
LogLevel ==
    [DEBUG |-> Num(0), INFO |-> Num(1), WARN |-> Num(2), ERROR |-> Num(3)]
        @@ ("0" :> Str(<<"D", "E", "B", "U", "G">>)) @@ ("1" :> Str(<<"I", "N", "F", "O">>))
        @@ ("2" :> Str(<<"W", "A", "R", "N">>)) @@ ("3" :> Str(<<"E", "R", "R", "O", "R">>))

\* the values the logLevel setting takes in the model: the name of a
\* level, a name that is no key of the enum (the logger falls back to
\* INFO) and the key of a name (the logger lets every entry pass)
ConfigLogLevels == {"ERROR", "VERBOSE", "0"}

\* LogLevel[level] ?? LogLevel.INFO
getConfiguredLogLevel(cfg) ==
    LET level == cfg.logLevel
    IN  IF level \in DOMAIN LogLevel THEN LogLevel[level]
        ELSE IF level \in ObjectPrototypeKeys THEN Inherited(level)
        ELSE LogLevel.INFO

NoDetail == [none |-> TRUE]

\* one call of logger.debug / info / warn / error
Entry(level, msg, detail) == [level |-> level, msg |-> msg, detail |-> detail]
E(level, msg) == Entry(level, msg, NoDetail)

----------------------------------------------------------------------------
(* State *)

VARIABLES
    config,       \* the gitCommitAI settings of the host
    loggerLevel,  \* Logger.logLevel, set by the constructor
    repos,        \* inputBox.value of each repository of the Git integration
    gen,          \* the frames of the generateCommitMessage invocations
    fm            \* the frame of the fetchModels invocation

vars == <<config, loggerLevel, repos, gen, fm>>

\* a URL is the sequence of its characters; the empty URL is the unset
\* setting
ChatUrl ==
    <<"h", "t", "t", "p", ":", "/", "/", "h", "/", "v", "1", "/", "c", "h", "a", "t", "/", "c", "o", "m", "p", "l", "e", "t", "i", "o", "n", "s">>
ApiUrls == {<<>>, ChatUrl}
ApiKeys == {"", "sk-key"}
ModelIds == {<<"g">>, <<"l">>}
\* the language set where the commands run with the host; every language
\* is run through the Prompt Builder under SpecPrompt
CommitLanguages == {"Chinese"}
\* what the user types into a commit input box
UserTexts == {<<"o">>}

SettingValues ==
    [apiUrl |-> ApiUrls, apiKey |-> ApiKeys, model |-> {Str(m) : m \in ModelIds},
     commitLanguage |-> CommitLanguages, logLevel |-> ConfigLogLevels]

Configs ==
    [apiUrl : SettingValues.apiUrl, apiKey : SettingValues.apiKey,
     model : SettingValues.model, commitLanguage : SettingValues.commitLanguage,
     logLevel : SettingValues.logLevel]

\* Logger.log: the entries of es that pass the level of the logger
Emit(l, es) == l \o SelectSeq(es, LAMBDA e : ~Less(LogLevel[e.level], loggerLevel))

NoRet == [ok |-> TRUE, v |-> Undef]
NoError == NoCause
NoRequest == [method |-> "none"]
NoResponse == [status |-> 0]

GenIdle ==
    [pc |-> "idle",
     workspaceFolders |-> Undef,
     stagedDiff |-> Undef, workingDiff |-> Undef,
     ret |-> NoRet,
     gitDiff |-> Undef,
     apiUrl |-> <<>>, apiKey |-> "",
     req |-> NoRequest, response |-> NoResponse,
     errorText |-> Undef, data |-> Undef,
     commitMessage |-> Undef,
     gitExtension |-> FALSE,
     err |-> NoError,
     execs |-> <<>>, fetches |-> 0, writes |-> 0,
     shown |-> <<>>, progress |-> <<>>, log |-> <<>>]

FmIdle ==
    [pc |-> "idle",
     req |-> NoRequest, response |-> NoResponse,
     data |-> Undef, models |-> Undef, modelNames |-> Undef,
     selectedModel |-> Undef,
     err |-> NoError,
     fetches |-> 0, quickPicks |-> 0,
     shown |-> <<>>, log |-> <<>>]

Quiescent == (\A r \in Runs : gen[r].pc = "idle") /\ fm.pc = "idle"

\* the positions at which an invocation waits for a subprocess, the
\* network, a body or the user: the event loop takes other events there
Suspended ==
    {"execStaged", "execWorking", "fetching", "readingText", "readingJson",
     "picking", "updating"}

\* no invocation is running: each is idle or suspended.  The continuations
\* that follow a settled await of a function of the extension itself run
\* as microtasks, before the next event of the host.
HostTurn ==
    /\ \A r \in DOMAIN gen : gen[r].pc \in Suspended \cup {"idle"}
    /\ fm.pc \in Suspended \cup {"idle"}

Init ==
    /\ config \in Configs
    /\ loggerLevel = getConfiguredLogLevel(config)
    /\ repos \in {<<>>} \cup {<<b>> : b \in UserTexts}
    /\ gen = [r \in Runs |-> GenIdle]
    /\ fm = FmIdle

----------------------------------------------------------------------------
(* The host: settings, repositories, the user's typing.  Its events are
   taken whenever no invocation is running, also while one is suspended. *)

UpdateSetting ==
    /\ HostTurn
    /\ \E k \in DOMAIN SettingValues : \E v \in SettingValues[k] :
          config' = [config EXCEPT ![k] = v]
    /\ UNCHANGED <<loggerLevel, repos, gen, fm>>

\* the user types into the input box of the first repository
EditInputBox ==
    /\ HostTurn
    /\ repos # <<>>
    /\ \E b \in UserTexts : repos' = [repos EXCEPT ![1] = b]
    /\ UNCHANGED <<config, loggerLevel, gen, fm>>

OpenRepository ==
    /\ HostTurn
    /\ Len(repos) < MaxRepos
    /\ repos' = Append(repos, <<"o">>)
    /\ UNCHANGED <<config, loggerLevel, gen, fm>>

CloseRepository ==
    /\ HostTurn
    /\ repos # <<>>
    /\ \E i \in DOMAIN repos :
          repos' = SubSeq(repos, 1, i - 1) \o SubSeq(repos, i + 1, Len(repos))
    /\ UNCHANGED <<config, loggerLevel, gen, fm>>

----------------------------------------------------------------------------
(* gitCommitButton.generateCommitMessage *)

Notice(kind, msg, cause) == [kind |-> kind, msg |-> msg, cause |-> cause]

\* vscode.workspace.workspaceFolders: undefined without a workspace, an
\* empty array for a workspace without folders, else the folders
WorkspaceFolders ==
    {Undef, Arr(<<>>), Arr(<<Obj([uri |-> Obj([fsPath |-> Str(<<"a">>)])])>>)}

\* the handler up to the first subprocess: generateCommitMessage, the
\* progress callback and getGitDiff up to exec('git diff --cached')
GenerateCommandStart(r) ==
    /\ \E workspaceFolders \in WorkspaceFolders :
          LET g == gen[r]
              l0 == Emit(<<>>, <<E("INFO", "Starting to generate commit message"),
                                 E("DEBUG", "Starting commit message generation process")>>)
              \* workspaceFolders[0].uri
              uri == GetProp(Index0(workspaceFolders), "uri")
          IN  IF ~Truthy(workspaceFolders)
              THEN gen' = [gen EXCEPT ![r] = [GenIdle EXCEPT
                       !.pc = "unwinding",
                       !.workspaceFolders = workspaceFolders,
                       !.log = Emit(l0, <<E("WARN", "No workspace is open")>>),
                       !.shown = <<Notice("error", "No workspace is open", NoCause)>>]]
              ELSE IF ~uri.ok
              THEN gen' = [gen EXCEPT ![r] = [GenIdle EXCEPT
                       !.pc = "unwinding",
                       !.workspaceFolders = workspaceFolders,
                       !.log = l0,
                       !.err = uri.e]]
              ELSE gen' = [gen EXCEPT ![r] = [GenIdle EXCEPT
                       !.pc = "execStaged",
                       !.workspaceFolders = workspaceFolders,
                       !.log = Emit(l0, <<E("DEBUG", "Workspace path"),
                                          E("INFO", "Step 1: Getting Git changes"),
                                          E("DEBUG", "Starting to get Git changes"),
                                          E("DEBUG", "Checking staged changes")>>),
                       !.progress = <<25>>,
                       !.execs = <<"git diff --cached">>]]
    /\ UNCHANGED <<config, loggerLevel, repos, fm>>

\* the command as the host starts it, one invocation at a time
GenerateCommand(r) == Quiescent /\ GenerateCommandStart(r)

\* a getGitDiff that runs the staged command again after a failure
getGitDiffRetries(g, cause) ==
    IF Len(g.execs) < 3
    THEN [g EXCEPT !.pc = "execStaged", !.execs = Append(g.execs, "git diff --cached")]
    ELSE [g EXCEPT !.pc = "diffSettled",
                   !.ret = Throw(Error("Unable to get Git change information"))]

\* the catch block of getGitDiff
getGitDiffFailed(g, cause) ==
    [g EXCEPT
       !.pc = "diffSettled",
       !.log = Emit(g.log, <<Entry("ERROR", "Error occurred while getting Git changes", cause)>>),
       !.ret = Throw(Error("Unable to get Git change information"))]

\* a getGitDiff that tests the staged diff without trimming it
noStagedChangesUntrimmed(stagedDiff) == stagedDiff = <<>>

\* !stagedDiff.trim()
noStagedChanges(stagedDiff) == Trim(stagedDiff) = <<>>

\* exec('git diff --cached') settles
ExecStagedDone(r) ==
    /\ gen[r].pc = "execStaged"
    /\ \/ gen' = [gen EXCEPT ![r] = getGitDiffFailed(@, Error("Command failed: git diff --cached"))]
       \/ \E out \in Texts :
             LET g == [gen[r] EXCEPT !.stagedDiff = Str(out)]
             IN  IF noStagedChanges(out)
                 THEN gen' = [gen EXCEPT ![r] = [g EXCEPT
                          !.pc = "execWorking",
                          !.log = Emit(g.log, <<E("DEBUG", "No staged changes, checking working directory changes")>>),
                          !.execs = Append(g.execs, "git diff")]]
                 ELSE gen' = [gen EXCEPT ![r] = [g EXCEPT
                          !.pc = "diffSettled",
                          !.log = Emit(g.log, <<E("DEBUG", "Staged changes retrieval completed")>>),
                          !.ret = Ok(g.stagedDiff)]]
    /\ UNCHANGED <<config, loggerLevel, repos, fm>>

\* exec('git diff') settles
ExecWorkingDone(r) ==
    /\ gen[r].pc = "execWorking"
    /\ \/ gen' = [gen EXCEPT ![r] = getGitDiffFailed(@, Error("Command failed: git diff"))]
       \/ \E out \in Texts :
             LET g == [gen[r] EXCEPT !.workingDiff = Str(out)]
             IN  gen' = [gen EXCEPT ![r] = [g EXCEPT
                     !.pc = "diffSettled",
                     !.log = Emit(g.log, <<E("DEBUG", "Working directory changes retrieval completed")>>),
                     !.ret = Ok(g.workingDiff)]]
    /\ UNCHANGED <<config, loggerLevel, repos, fm>>

----------------------------------------------------------------------------
(* Prompt Builder *)

\* the keys of the prompts table; each template is the text before the
\* diff and the text after it
prompts ==
    [English    |-> [head |-> "Please generate ... Git changes:",
                     tail |-> "Please return only the commit message, without any other content:"],
     Chinese    |-> [head |-> "Chinese: generate ... Git changes:",
                     tail |-> "Chinese: return only the commit message:"],
     Japanese   |-> [head |-> "Japanese: generate ... Git changes:",
                     tail |-> "Japanese: return only the commit message:"],
     Korean     |-> [head |-> "Korean: generate ... Git changes:",
                     tail |-> "Korean: return only the commit message:"],
     French     |-> [head |-> "Veuillez generer ... Changements Git :",
                     tail |-> "Veuillez retourner uniquement le message de commit, sans autre contenu :"],
     German     |-> [head |-> "Bitte generieren Sie ... Git-Anderungen:",
                     tail |-> "Bitte geben Sie nur die Commit-Nachricht zuruck, ohne anderen Inhalt:"],
     Spanish    |-> [head |-> "Por favor, genere ... Cambios de Git:",
                     tail |-> "Por favor, devuelva solo el mensaje de commit, sin otro contenido:"],
     Portuguese |-> [head |-> "Por favor, gere ... Mudancas do Git:",
                     tail |-> "Por favor, retorne apenas a mensagem de commit, sem outro conteudo:"],
     Russian    |-> [head |-> "Russian: generate ... Git changes:",
                     tail |-> "Russian: return only the commit message:"],
     Italian    |-> [head |-> "Si prega di generare ... Cambiamenti Git:",
                     tail |-> "Si prega di restituire solo il messaggio di commit, senza altri contenuti:"]]

\* a Prompt Builder that splices the diff last collected by any invocation,
\* as if it were kept in a variable of the module
generatePromptFromSharedDiff(language, gitDiff) ==
    LET others == {q \in DOMAIN gen : /\ gen[q].pc \in {"execWorking", "diffSettled"}
                                       /\ gen[q].stagedDiff.t = "str"
                                       /\ gen[q].stagedDiff.v # gitDiff}
        shared == IF others = {} THEN gitDiff
                  ELSE gen[CHOOSE q \in others : TRUE].stagedDiff.v
        template == IF language \in DOMAIN prompts THEN prompts[language] ELSE prompts.English
    IN  <<template.head>> \o shared \o <<template.tail>>

\* prompts[language] || prompts['English']: the template of an own key,
\* the diff spliced between its two parts; the inherited member itself,
\* which holds neither a template nor the diff, for a key of
\* Object.prototype; the English template for every other key
generatePromptForLanguage(language, gitDiff) ==
    IF language \in DOMAIN prompts
    THEN <<prompts[language].head>> \o gitDiff \o <<prompts[language].tail>>
    ELSE IF language \in ObjectPrototypeKeys
    THEN <<"Object.prototype", language>>
    ELSE <<prompts.English.head>> \o gitDiff \o <<prompts.English.tail>>

----------------------------------------------------------------------------
(* AI Client *)

HttpStatuses == {200, 404, 500}
StatusText == [s \in HttpStatuses |->
                 CASE s = 200 -> "OK" [] s = 404 -> "Not Found" [] OTHER -> "Internal Server Error"]
\* Response.ok
ResponseOk(status) == status >= 200 /\ status <= 299

\* the texts of the bodies of non-success responses
ErrorBodies == {<<>>, <<"a">>}

\* the catch block of callAI
callAIFailed(g, error) ==
    [g EXCEPT
       !.pc = "aiSettled",
       !.req = NoRequest,
       !.log = Emit(g.log, <<Entry("ERROR", "Error occurred while calling AI", error)>>),
       !.ret = Throw(MkError("Error", "AI call failed", NoParts, error))]

\* callAI from its first line to the await on fetch; the frame drops
\* gitDiff once the prompt is built, nothing reads it afterwards
callAIStart(g0, gitDiff) ==
    LET apiUrl == config.apiUrl
        apiKey == config.apiKey
        model == config.model
        commitLanguage == config.commitLanguage
        g == [g0 EXCEPT
                !.apiUrl = apiUrl, !.apiKey = apiKey,
                !.log = Emit(g0.log, <<E("DEBUG", "Starting to call AI API"),
                                      E("DEBUG", "AI configuration information")>>)]
    IN  IF apiKey = ""
        THEN [g EXCEPT
                !.pc = "aiSettled",
                !.gitDiff = Undef,
                !.log = Emit(g.log, <<E("ERROR", "AI API Key not configured")>>),
                !.ret = Throw(Error("Please configure AI API Key in settings first"))]
        ELSE [g EXCEPT
                !.pc = "fetching",
                !.gitDiff = Undef,
                !.log = Emit(g.log, <<E("INFO", "Sending AI API request")>>),
                !.fetches = g.fetches + 1,
                !.req = [method |-> "POST", url |-> apiUrl, authorization |-> apiKey,
                         body |-> [model |-> model,
                                   messages |-> <<[role |-> "user",
                                                   content |-> generatePromptForLanguage(commitLanguage, gitDiff)]>>,
                                   max_tokens |-> 100,
                                   temperature |-> "0.7"]]]

\* a callback that treats an empty diff as a failure
noChangesDetectedAsError(g) ==
    [g EXCEPT
       !.pc = "unwinding",
       !.log = Emit(g.log, <<E("ERROR", "No Git changes detected")>>),
       !.err = Error("No Git changes detected")]

\* the branch of the progress callback taken when !gitDiff.trim()
noChangesDetected(g) ==
    [g EXCEPT
       !.pc = "unwinding",
       !.log = Emit(g.log, <<E("WARN", "No Git changes detected")>>),
       !.shown = Append(g.shown, Notice("warning", "No Git changes detected", NoCause))]

\* await getGitDiff(workspaceRoot) settles in the progress callback
GitDiffSettled(r) ==
    /\ gen[r].pc = "diffSettled"
    /\ LET g == [gen[r] EXCEPT !.stagedDiff = Undef, !.workingDiff = Undef, !.ret = NoRet]
           ret == gen[r].ret
       IN  IF ~ret.ok
           THEN gen' = [gen EXCEPT ![r] = [g EXCEPT
                    !.pc = "unwinding",
                    !.log = Emit(g.log, <<Entry("ERROR", "Error occurred during commit message generation process", ret.e)>>),
                    !.err = ret.e]]
           ELSE IF Trim(ret.v.v) = <<>>
           THEN gen' = [gen EXCEPT ![r] = noChangesDetected([g EXCEPT !.gitDiff = ret.v])]
           ELSE gen' = [gen EXCEPT ![r] = callAIStart(
                    [g EXCEPT
                       !.gitDiff = ret.v,
                       !.log = Emit(g.log, <<E("DEBUG", "Git changes content length"),
                                             E("INFO", "Step 2: Calling AI to generate commit message")>>),
                       !.progress = Append(g.progress, 50)],
                    ret.v.v)]
    /\ UNCHANGED <<config, loggerLevel, repos, fm>>

\* await fetch(apiUrl, ...) settles
FetchSettled(r) ==
    /\ gen[r].pc = "fetching"
    /\ LET g == gen[r]
       IN  \/ /\ g.req.url = <<>>
              /\ gen' = [gen EXCEPT ![r] = callAIFailed(g, TypeError("Failed to parse URL"))]
           \/ /\ g.req.url # <<>>
              /\ gen' = [gen EXCEPT ![r] = callAIFailed(g, TypeError("fetch failed"))]
           \/ /\ g.req.url # <<>>
              /\ \E status \in HttpStatuses :
                    gen' = [gen EXCEPT ![r] = [g EXCEPT
                       !.pc = IF ResponseOk(status) THEN "readingJson" ELSE "readingText",
                       !.req = NoRequest,
                       !.response = [status |-> status, statusText |-> StatusText[status]],
                       !.log = Emit(g.log, <<E("DEBUG", "AI API response status")>>)]]
    /\ UNCHANGED <<config, loggerLevel, repos, fm>>

\* the error thrown for a response that is not ok
upstreamError(response, errorText) ==
    MkError("Error", "AI API request failed",
            [status |-> response.status, statusText |-> response.statusText],
            NoCause)

\* await response.text() settles
ResponseTextSettled(r) ==
    /\ gen[r].pc = "readingText"
    /\ LET g == gen[r]
       IN  \/ gen' = [gen EXCEPT ![r] = callAIFailed(g, TypeError("terminated"))]
           \/ \E errorText \in ErrorBodies :
                 gen' = [gen EXCEPT ![r] = callAIFailed(
                    [g EXCEPT !.errorText = Str(errorText), !.log = Emit(g.log,
                        <<Entry("ERROR", "AI API request failed",
                                [status |-> g.response.status,
                                 statusText |-> g.response.statusText,
                                 errorText |-> errorText])>>)],
                    upstreamError(g.response, errorText))]
    /\ UNCHANGED <<config, loggerLevel, repos, fm>>

\* the bodies of the successful chat responses, as parsed by response.json()
ChatContents == {Null, Num(1)} \cup {Str(s) : s \in Texts}
ChatMessages ==
    {Obj([role |-> Str(<<"a">>)])} \cup {Obj([content |-> c]) : c \in ChatContents}
ChatChoices ==
    {Null, Obj([index |-> Num(0)]), Obj([message |-> Null])}
        \cup {Obj([message |-> m]) : m \in ChatMessages}
ChatBodies ==
    {Null, Num(1), Obj([error |-> Str(<<"a">>)]),
     Obj([choices |-> Null]), Obj([choices |-> Str(<<"a">>)]), Obj([choices |-> Arr(<<>>)]),
     Obj([choices |-> Obj("0" :> Obj([message |-> Obj([content |-> Str(<<"a">>)])]))]),
     Obj([choices |-> Arr(<<Obj([message |-> Obj([content |-> Str(<<"a">>)])]),
                            Obj([message |-> Obj([content |-> Str(<<"a", "a">>)])])>>)])}
        \cup {Obj([choices |-> Arr(<<c>>)]) : c \in ChatChoices}

\* data.choices?.[0]?.message?.content?.trim()
extractCommitMessage(data) ==
    LET choices == GetProp(data, "choices")
    IN  IF ~choices.ok THEN choices
        ELSE LET first == IF Nullish(choices.v) THEN Undef ELSE Index0(choices.v)
                 message == OptProp(first, "message")
                 content == OptProp(message, "content")
             IN  OptTrim(content)

\* await response.json() settles; callAI runs to its end
ResponseJsonSettled(r) ==
    /\ gen[r].pc = "readingJson"
    /\ LET g == gen[r]
       IN  \/ gen' = [gen EXCEPT ![r] = callAIFailed(g, SyntaxError("Unexpected token"))]
           \/ \E data \in ChatBodies :
                 LET g1 == [g EXCEPT !.data = data,
                                        !.log = Emit(g.log, <<E("DEBUG", "AI API response data")>>)]
                     commitMessage == extractCommitMessage(data)
                 IN  IF ~commitMessage.ok
                     THEN gen' = [gen EXCEPT ![r] = callAIFailed(g1, commitMessage.e)]
                     ELSE IF ~Truthy(commitMessage.v)
                     THEN gen' = [gen EXCEPT ![r] = callAIFailed(
                              [g1 EXCEPT !.log = Emit(g1.log,
                                  <<E("ERROR", "AI returned response format is incorrect")>>)],
                              Error("AI returned response format is incorrect"))]
                     ELSE gen' = [gen EXCEPT ![r] = [g1 EXCEPT
                              !.pc = "aiSettled",
                              !.log = Emit(g1.log,
                                  <<Entry("INFO", "AI generated commit message successfully", commitMessage.v)>>),
                              !.ret = Ok(commitMessage.v)]]
    /\ UNCHANGED <<config, loggerLevel, repos, fm>>

----------------------------------------------------------------------------
(* Commit-Box Writer *)

\* a write that appends to what the box holds
writeInputBoxMerged(boxes, message) == [boxes EXCEPT ![1] = @ \o message]

\* a write that fills the box of every repository
writeInputBoxAll(boxes, message) == [i \in DOMAIN boxes |-> message]

\* repository.inputBox.value = message, repository being git.repositories[0]
writeInputBox(boxes, message) == [boxes EXCEPT ![1] = message]

\* the catch block of setCommitMessage
setCommitMessageFailed(g, error) ==
    [g EXCEPT
       !.pc = "setSettled",
       !.log = Emit(g.log, <<Entry("ERROR", "Error occurred while setting commit message", error)>>),
       !.ret = Throw(Error("Unable to set commit message to Git input box"))]

\* await callAI(gitDiff) settles; setCommitMessage runs to its end
CallAISettled(r) ==
    /\ gen[r].pc = "aiSettled"
    /\ LET ret == gen[r].ret
           g == [gen[r] EXCEPT !.ret = NoRet, !.apiUrl = <<>>, !.apiKey = "",
                               !.response = NoResponse, !.errorText = Undef, !.data = Undef]
       IN  IF ~ret.ok
           THEN /\ gen' = [gen EXCEPT ![r] = [g EXCEPT
                     !.pc = "unwinding",
                     !.log = Emit(g.log, <<Entry("ERROR", "Error occurred during commit message generation process", ret.e)>>),
                     !.err = ret.e]]
                /\ UNCHANGED repos
           ELSE \E gitExtension \in BOOLEAN :
                   LET message == ret.v
                       g1 == [g EXCEPT
                                !.commitMessage = message,
                                !.gitExtension = gitExtension,
                                !.log = Emit(g.log,
                                    <<Entry("INFO", "AI generated commit message", message),
                                      E("INFO", "Step 3: Setting commit message to Git input box"),
                                      Entry("DEBUG", "Starting to set commit message to Git input box", message)>>),
                                !.progress = Append(g.progress, 75)]
                   IN  IF ~gitExtension
                       THEN /\ gen' = [gen EXCEPT ![r] = setCommitMessageFailed(
                                 [g1 EXCEPT !.log = Emit(g1.log, <<E("ERROR", "Git extension not found")>>)],
                                 Error("Git extension not found"))]
                            /\ UNCHANGED repos
                       ELSE IF repos = <<>>
                       THEN /\ gen' = [gen EXCEPT ![r] = setCommitMessageFailed(
                                 [g1 EXCEPT !.log = Emit(g1.log,
                                     <<E("DEBUG", "Git extension retrieved successfully"),
                                       E("ERROR", "No Git repository found")>>)],
                                 Error("No Git repository found"))]
                            /\ UNCHANGED repos
                       ELSE /\ repos' = writeInputBox(repos, message.v)
                            /\ gen' = [gen EXCEPT ![r] = [g1 EXCEPT
                                 !.pc = "setSettled",
                                 !.writes = g1.writes + 1,
                                 !.log = Emit(g1.log,
                                     <<E("DEBUG", "Git extension retrieved successfully"),
                                       E("DEBUG", "Git repository retrieved successfully"),
                                       Entry("INFO", "Commit message set successfully", message)>>),
                                 !.ret = Ok(Undef)]]
    /\ UNCHANGED <<config, loggerLevel, fm>>

----------------------------------------------------------------------------
(* Orchestrator: the end of the progress callback and of the command *)

\* await setCommitMessage(commitMessage) settles
SetCommitMessageSettled(r) ==
    /\ gen[r].pc = "setSettled"
    /\ LET ret == gen[r].ret
           g == [gen[r] EXCEPT !.ret = NoRet, !.gitExtension = FALSE]
       IN  IF ~ret.ok
           THEN gen' = [gen EXCEPT ![r] = [g EXCEPT
                    !.pc = "unwinding",
                    !.log = Emit(g.log, <<Entry("ERROR", "Error occurred during commit message generation process", ret.e)>>),
                    !.err = ret.e]]
           ELSE gen' = [gen EXCEPT ![r] = [g EXCEPT
                    !.pc = "unwinding",
                    !.progress = Append(g.progress, 100),
                    !.log = Emit(g.log, <<E("INFO", "Commit message generation process completed")>>),
                    !.shown = Append(g.shown, Notice("info", "Commit message has been generated", NoCause))]]
    /\ UNCHANGED <<config, loggerLevel, repos, fm>>

\* the progress the indicator has accumulated: the host sums the increment
\* of every progress.report of the run
RECURSIVE accumulated(_)
accumulated(increments) ==
    IF increments = <<>> THEN 0
    ELSE increments[Len(increments)] + accumulated(SubSeq(increments, 1, Len(increments) - 1))

\* withProgress and generateCommitMessage settle; the command handler ends
GenerateCommandEnd(r) ==
    /\ gen[r].pc = "unwinding"
    /\ LET g == gen[r]
       IN  IF g.err # NoError
           THEN gen' = [gen EXCEPT ![r] = [g EXCEPT
                    !.pc = "ended",
                    !.log = Emit(g.log, <<Entry("ERROR", "Error occurred while generating commit message", g.err)>>),
                    !.shown = Append(g.shown, Notice("error", "Error generating commit message", g.err))]]
           ELSE gen' = [gen EXCEPT ![r] = [g EXCEPT
                    !.pc = "ended",
                    !.log = Emit(g.log, <<E("INFO", "Commit message generation completed")>>)]]
    /\ UNCHANGED <<config, loggerLevel, repos, fm>>

\* the frame of the finished invocation is released
GenerateCommandReleased(r) ==
    /\ gen[r].pc = "ended"
    /\ gen' = [gen EXCEPT ![r] = GenIdle]
    /\ UNCHANGED <<config, loggerLevel, repos, fm>>

----------------------------------------------------------------------------
(* Model Lister: gitCommitButton.fetchModels *)

\* longest list of model entries in a response
MaxModels == 2

ModelEntries ==
    {Null, Str(<<>>), Str(<<"g">>),
     Obj([id |-> Str(<<"g">>)]), Obj([name |-> Str(<<"l">>)]),
     Obj([id |-> Str(<<>>), name |-> Str(<<"l">>)]),
     Obj([object |-> Str(<<"m">>)])}

RECURSIVE ModelLists(_)
ModelLists(n) ==
    IF n = 0 THEN {<<>>}
    ELSE LET shorter == ModelLists(n - 1)
         IN  shorter \cup {Append(l, e) : l \in {x \in shorter : Len(x) = n - 1}, e \in ModelEntries}

\* the bodies of the successful models responses, as parsed by response.json()
ModelBodies ==
    {Null, Num(1), Obj([error |-> Str(<<"a">>)]), Obj([data |-> Str(<<"a">>)])}
        \cup {Obj([data |-> Arr(l)]) : l \in ModelLists(MaxModels)}
        \cup {Obj([models |-> m]) : m \in {Null, Arr(<<>>), Arr(<<Obj([name |-> Str(<<"l">>)])>>)}}
        \cup {Obj([data |-> d, models |-> m]) :
                 d \in {Null, Str(<<>>), Arr(<<>>), Arr(<<Obj([id |-> Str(<<"g">>)])>>)},
                 m \in {Arr(<<>>), Arr(<<Obj([name |-> Str(<<"l">>)])>>)}}

\* the few bodies used where the two commands are run side by side
SampleModelBodies ==
    {Null,
     Obj([data |-> Arr(<<>>)]),
     Obj([data |-> Arr(<<Obj([id |-> Str(<<"g">>)]), Obj([name |-> Str(<<"l">>)])>>)])}

\* String.prototype.replace(from, to) with a string pattern: the first
\* occurrence of from in url is replaced by to
replace(url, from, to) ==
    LET starts == {i \in 1..(Len(url) - Len(from) + 1) :
                      SubSeq(url, i, i + Len(from) - 1) = from}
    IN  IF starts = {} THEN url
        ELSE LET i == CHOOSE j \in starts : \A k \in starts : j <= k
             IN  SubSeq(url, 1, i - 1) \o to \o SubSeq(url, i + Len(from), Len(url))

\* a list selection that skips empty lists
selectModelsNonEmpty(data) ==
    LET d == GetProp(data, "data")
    IN  IF ~d.ok THEN d
        ELSE IF d.v.t = "arr" /\ d.v.v # <<>> THEN d
        ELSE LET m == GetProp(data, "models")
             IN  IF m.v.t = "arr" /\ m.v.v # <<>> THEN m ELSE Ok(Arr(<<>>))

\* data.data || data.models || []
selectModels(data) ==
    LET d == GetProp(data, "data")
    IN  IF ~d.ok THEN d
        ELSE IF Truthy(d.v) THEN d
        ELSE LET m == GetProp(data, "models")
             IN  IF Truthy(m.v) THEN m ELSE Ok(Arr(<<>>))

\* model.id || model.name || model
modelName(model) ==
    LET id == GetProp(model, "id")
    IN  IF ~id.ok THEN id
        ELSE IF Truthy(id.v) THEN id
        ELSE LET name == GetProp(model, "name")
             IN  IF Truthy(name.v) THEN name ELSE Ok(model)

\* models.map(model => model.id || model.name || model).filter(Boolean)
extractModelNames(models) ==
    IF \E i \in DOMAIN models : ~modelName(models[i]).ok
    THEN Throw(TypeError("Cannot read properties"))
    ELSE Ok(Arr(SelectSeq([i \in DOMAIN models |-> modelName(models[i]).v],
                          LAMBDA x : Truthy(x))))

\* the catch block of fetchAndUpdateModels: log and rethrow
fetchModelsFailed(f, error) ==
    [f EXCEPT
       !.pc = "unwinding",
       !.req = NoRequest,
       !.log = Emit(f.log, <<Entry("ERROR", "Error occurred while fetching model list", error)>>),
       !.err = error]

\* the handler and fetchAndUpdateModels up to the await on fetch
FetchModelsCommandStart ==
    /\ LET apiUrl == config.apiUrl
           apiKey == config.apiKey
           f == [FmIdle EXCEPT
                   !.log = Emit(<<>>, <<E("INFO", "Starting to fetch model list"),
                                        E("DEBUG", "Starting to fetch model list")>>)]
       IN  IF apiKey = ""
           THEN fm' = [f EXCEPT
                   !.pc = "unwinding",
                   !.log = Emit(f.log, <<E("ERROR", "API Key not configured, unable to fetch model list")>>),
                   !.err = Error("Please configure AI API Key in settings first")]
           ELSE IF apiUrl = <<>>
           THEN fm' = [f EXCEPT
                   !.pc = "unwinding",
                   !.log = Emit(f.log, <<E("ERROR", "API URL not configured, unable to fetch model list")>>),
                   !.err = Error("Please configure AI API URL in settings first")]
           ELSE fm' = [f EXCEPT
                   !.pc = "fetching",
                   !.log = Emit(f.log, <<E("DEBUG", "Requesting model list API")>>),
                   !.fetches = f.fetches + 1,
                   !.req = [method |-> "GET",
                            url |-> replace(
                                replace(apiUrl,
                                        <<"/", "c", "h", "a", "t", "/", "c", "o", "m", "p", "l", "e", "t", "i", "o", "n", "s">>,
                                        <<"/", "m", "o", "d", "e", "l", "s">>),
                                <<"/", "v", "1", "/", "c", "h", "a", "t", "/", "c", "o", "m", "p", "l", "e", "t", "i", "o", "n", "s">>,
                                <<"/", "v", "1", "/", "m", "o", "d", "e", "l", "s">>),
                            authorization |-> apiKey]]
    /\ UNCHANGED <<config, loggerLevel, repos, gen>>

\* the command as the host starts it, one invocation at a time
FetchModelsCommand == Quiescent /\ FetchModelsCommandStart

\* await fetch(modelsUrl, ...) settles
ModelsFetchSettled ==
    /\ fm.pc = "fetching"
    /\ \/ fm' = fetchModelsFailed(fm, TypeError("fetch failed"))
       \/ \E status \in HttpStatuses :
             fm' = [fm EXCEPT
                !.pc = IF ResponseOk(status) THEN "readingJson" ELSE "readingText",
                !.req = NoRequest,
                !.response = [status |-> status, statusText |-> StatusText[status]],
                !.log = Emit(fm.log, <<E("DEBUG", "Model list API response status")>>)]
    /\ UNCHANGED <<config, loggerLevel, repos, gen>>

\* await response.text() settles
ModelsTextSettled ==
    /\ fm.pc = "readingText"
    /\ \/ fm' = fetchModelsFailed(fm, TypeError("terminated"))
       \/ \E errorText \in ErrorBodies :
             fm' = fetchModelsFailed(
                [fm EXCEPT !.log = Emit(fm.log,
                    <<Entry("ERROR", "Model list API request failed",
                            [status |-> fm.response.status,
                             statusText |-> fm.response.statusText,
                             errorText |-> errorText])>>)],
                MkError("Error", "Failed to fetch model list",
                        [status |-> fm.response.status, statusText |-> fm.response.statusText],
                        NoCause))
    /\ UNCHANGED <<config, loggerLevel, repos, gen>>

\* await response.json() settles; the list is parsed and the choice shown
ModelsJsonSettled(bodies) ==
    /\ fm.pc = "readingJson"
    /\ \/ fm' = fetchModelsFailed(fm, SyntaxError("Unexpected token"))
       \/ \E data \in bodies :
             LET f == [fm EXCEPT !.data = data,
                                 !.log = Emit(fm.log, <<E("DEBUG", "Model list API response data")>>)]
                 models == selectModels(data)
             IN  IF ~models.ok
                 THEN fm' = fetchModelsFailed(f, models.e)
                 ELSE IF models.v.t # "arr" \/ Len(models.v.v) = 0
                 THEN fm' = fetchModelsFailed(
                         [f EXCEPT !.models = models.v,
                                   !.log = Emit(f.log, <<E("WARN", "API returned empty model list or incorrect format")>>)],
                         Error("API returned empty model list or incorrect format"))
                 ELSE LET modelNames == extractModelNames(models.v.v)
                      IN  IF ~modelNames.ok
                          THEN fm' = fetchModelsFailed([f EXCEPT !.models = models.v], modelNames.e)
                          ELSE fm' = [f EXCEPT
                                  !.pc = "picking",
                                  !.models = models.v,
                                  !.modelNames = modelNames.v,
                                  !.quickPicks = f.quickPicks + 1,
                                  !.log = Emit(f.log, <<E("INFO", "Retrieved model list")>>)]
    /\ UNCHANGED <<config, loggerLevel, repos, gen>>

\* await showQuickPick(modelNames, ...) settles
QuickPickSettled ==
    /\ fm.pc = "picking"
    /\ LET f == [fm EXCEPT !.data = Undef, !.models = Undef]
       IN  \/ fm' = [f EXCEPT
                 !.pc = "unwinding",
                 !.modelNames = Undef,
                 !.log = Emit(f.log, <<E("INFO", "User cancelled model selection")>>)]
           \/ \E i \in DOMAIN fm.modelNames.v :
                 fm' = [f EXCEPT
                    !.pc = "updating",
                    !.modelNames = Undef,
                    !.selectedModel = fm.modelNames.v[i]]
    /\ UNCHANGED <<config, loggerLevel, repos, gen>>

\* an update that also resets the language of the commit message
updateModelAndLanguage(cfg, selectedModel) ==
    [cfg EXCEPT !.model = selectedModel, !.commitLanguage = "English"]

\* config.update('model', selectedModel, ConfigurationTarget.Global)
updateModel(cfg, selectedModel) == [cfg EXCEPT !.model = selectedModel]

\* await config.update('model', selectedModel, Global) settles
ConfigUpdateSettled ==
    /\ fm.pc = "updating"
    /\ \/ /\ fm' = fetchModelsFailed(fm, Error("Unable to write into user settings"))
          /\ UNCHANGED config
       \/ /\ config' = updateModel(config, fm.selectedModel)
          /\ fm' = [fm EXCEPT
                !.pc = "unwinding",
                !.log = Emit(fm.log, <<Entry("INFO", "Model updated", fm.selectedModel)>>),
                !.shown = Append(fm.shown, Notice("info", "Model updated to", fm.selectedModel))]
    /\ UNCHANGED <<loggerLevel, repos, gen>>

\* fetchAndUpdateModels settles; the command handler ends
FetchModelsCommandEnd ==
    /\ fm.pc = "unwinding"
    /\ IF fm.err # NoError
       THEN fm' = [fm EXCEPT
               !.pc = "ended",
               !.log = Emit(fm.log, <<Entry("ERROR", "Error occurred while fetching model list", fm.err)>>),
               !.shown = Append(fm.shown, Notice("error", "Error fetching model list", fm.err))]
       ELSE fm' = [fm EXCEPT
               !.pc = "ended",
               !.log = Emit(fm.log, <<E("INFO", "Model list fetch completed")>>)]
    /\ UNCHANGED <<config, loggerLevel, repos, gen>>

\* the frame of the finished invocation is released
FetchModelsReleased ==
    /\ fm.pc = "ended"
    /\ fm' = FmIdle
    /\ UNCHANGED <<config, loggerLevel, repos, gen>>

FetchModels(bodies) ==
    \/ FetchModelsCommand
    \/ ModelsFetchSettled
    \/ ModelsTextSettled
    \/ ModelsJsonSettled(bodies)
    \/ QuickPickSettled
    \/ ConfigUpdateSettled
    \/ FetchModelsCommandEnd
    \/ FetchModelsReleased

----------------------------------------------------------------------------

Generate(r) ==
    \/ GenerateCommand(r)
    \/ ExecStagedDone(r)
    \/ ExecWorkingDone(r)
    \/ GitDiffSettled(r)
    \/ FetchSettled(r)
    \/ ResponseTextSettled(r)
    \/ ResponseJsonSettled(r)
    \/ CallAISettled(r)
    \/ SetCommitMessageSettled(r)
    \/ GenerateCommandEnd(r)
    \/ GenerateCommandReleased(r)

Next ==
    \/ UpdateSetting
    \/ EditInputBox
    \/ OpenRepository
    \/ CloseRepository
    \/ \E r \in Runs : Generate(r)
    \/ FetchModels(SampleModelBodies)

Spec == Init /\ [][Next]_vars

\* the fetchModels command alone, over every body of ModelBodies
InitModels == Init /\ repos = <<>>

NextModels ==
    \/ UpdateSetting
    \/ FetchModels(ModelBodies)

SpecModels == InitModels /\ [][NextModels]_vars

\* the values of the commitLanguage setting: the keys of prompts, a name
\* that is no key, the empty string and names of inherited members
PromptLanguages ==
    DOMAIN prompts \cup {"Klingon", "", "constructor", "toString", "__proto__"}

\* a generation run up to the request of callAI, over every language
InitPrompt ==
    /\ config \in [apiUrl : {ChatUrl},
                    apiKey : {"sk-key"},
                    model : {Str(<<"g">>)},
                    commitLanguage : PromptLanguages,
                    logLevel : {"ERROR"}]
    /\ loggerLevel = getConfiguredLogLevel(config)
    /\ repos = <<>>
    /\ gen = [r \in Runs |-> GenIdle]
    /\ fm = FmIdle

NextPrompt ==
    \E r \in Runs :
       \/ GenerateCommand(r)
       \/ ExecStagedDone(r)
       \/ ExecWorkingDone(r)
       \/ GitDiffSettled(r)

SpecPrompt == InitPrompt /\ [][NextPrompt]_vars

\* the frames of the generate command where two invocations are in flight
Pair == {1, 2}

\* a command started while another invocation is suspended at an await,
\* which nothing in the extension prevents; two invocations at a time
InitInterleaved ==
    /\ config = [apiUrl |-> ChatUrl,
                 apiKey |-> "sk-key",
                 model |-> Str(<<"g">>),
                 commitLanguage |-> "Chinese",
                 logLevel |-> "ERROR"]
    /\ loggerLevel = getConfiguredLogLevel(config)
    /\ repos = << <<"o">> >>
    /\ gen = [r \in Pair |-> GenIdle]
    /\ fm = FmIdle

\* the invocations that have started and whose frame is not released
InFlight ==
    Cardinality({r \in DOMAIN gen : gen[r].pc # "idle"}) + (IF fm.pc # "idle" THEN 1 ELSE 0)

GenerateInterleaved(r) ==
    \/ gen[r].pc = "idle" /\ InFlight < 2 /\ GenerateCommandStart(r)
    \/ ExecStagedDone(r)
    \/ ExecWorkingDone(r)
    \/ GitDiffSettled(r)
    \/ FetchSettled(r)
    \/ ResponseTextSettled(r)
    \/ ResponseJsonSettled(r)
    \/ CallAISettled(r)
    \/ SetCommitMessageSettled(r)
    \/ GenerateCommandEnd(r)

FetchModelsInterleaved ==
    \/ fm.pc = "idle" /\ InFlight < 2 /\ FetchModelsCommandStart
    \/ ModelsFetchSettled
    \/ ModelsTextSettled
    \/ ModelsJsonSettled(SampleModelBodies)
    \/ QuickPickSettled
    \/ ConfigUpdateSettled
    \/ FetchModelsCommandEnd

NextInterleaved ==
    \/ \E r \in Pair : GenerateInterleaved(r)
    \/ FetchModelsInterleaved

SpecInterleaved == InitInterleaved /\ [][NextInterleaved]_vars

----------------------------------------------------------------------------
(* Properties *)

\* the value found by walking the keys choices, 0, message, content of a
\* parsed body; undefined when a level is absent
Field(x, k) == IF x.t = "obj" /\ k \in DOMAIN x.v THEN x.v[k] ELSE Undef
First(x) ==
    IF x.t = "arr" /\ Len(x.v) > 0 THEN x.v[1]
    ELSE IF x.t = "obj" /\ "0" \in DOMAIN x.v THEN x.v["0"]
    ELSE Undef
PathContent(d) == Field(Field(First(Field(d, "choices")), "message"), "content")

Shows(g, kind) == \E i \in DOMAIN g.shown : g.shown[i].kind = kind

\* C1: getGitDiff returns exactly the staged diff when the staged diff is
\* non-empty after trimming, whatever the working-tree diff; otherwise it
\* returns the working-tree diff verbatim, even when empty; 'git diff' is
\* run only in the second case.
C1_GetGitDiffPrefersStaged ==
    \A r \in Runs :
       LET g == gen[r]
       IN  /\ (g.pc = "diffSettled" /\ g.ret.ok) =>
                 IF Trim(g.stagedDiff.v) # <<>>
                 THEN /\ g.ret.v = g.stagedDiff
                      /\ g.workingDiff = Undef
                      /\ g.execs = <<"git diff --cached">>
                 ELSE /\ g.workingDiff.t = "str"
                      /\ g.ret.v = g.workingDiff
                      /\ g.execs = <<"git diff --cached", "git diff">>
           /\ g.pc = "execWorking" => Trim(g.stagedDiff.v) = <<>>

C1_Witness ==
    \E r \in Runs :
       /\ gen[r].pc = "diffSettled"
       /\ gen[r].stagedDiff = Str(<<" ">>)
       /\ gen[r].workingDiff = Str(<<" ", "a">>)
       /\ gen[r].ret = Ok(Str(<<" ", "a">>))

\* C2: a generation run whose collected diff is empty or white space ends
\* benignly: the warning notice is shown, no HTTP request is issued, the
\* commit input box is not written and no error message is shown, also
\* when apiKey is not configured.
C2_NoChangesIsBenign ==
    \A r \in Runs :
       LET g == gen[r]
       IN  (g.gitDiff.t = "str" /\ Trim(g.gitDiff.v) = <<>>) =>
              /\ g.pc \in {"unwinding", "ended"}
              /\ g.shown = <<Notice("warning", "No Git changes detected", NoCause)>>
              /\ g.fetches = 0
              /\ g.writes = 0
              /\ g.err = NoError

C2_Witness ==
    \E r \in Runs :
       /\ gen[r].pc = "ended"
       /\ gen[r].gitDiff = Str(<<" ">>)
       /\ config.apiKey = ""

\* C3: callAI invoked with apiUrl or apiKey empty fails with a
\* configuration-missing error and has attempted no network request.
C3_ConfigurationMissingBeforeNetwork ==
    \A r \in Runs :
       LET g == gen[r]
       IN  (g.pc = "aiSettled" /\ (g.apiUrl = <<>> \/ g.apiKey = "")) =>
              /\ ~g.ret.ok
              /\ g.ret.e.msg \in {"Please configure AI API Key in settings first",
                                  "Please configure AI API URL in settings first"}
              /\ g.fetches = 0

\* C4: for every non-success HTTP status returned by the chat endpoint the
\* error the caller of callAI receives carries the status code and, once
\* the body text has been read, the response body text; a run whose callAI
\* failed writes no commit box and shows no success notice.
C4_UpstreamErrorCarriesStatusAndBody ==
    \A r \in Runs :
       LET g == gen[r]
       IN  /\ (/\ g.pc = "aiSettled"
                /\ g.response # NoResponse
                /\ ~ResponseOk(g.response.status)) =>
                 /\ ~g.ret.ok
                 /\ Carries(g.ret.e, "status", g.response.status)
                 /\ g.errorText.t = "str" =>
                       Carries(g.ret.e, "errorText", g.errorText.v)
           /\ ErrorSays(g.err, "AI call failed") =>
                 /\ g.writes = 0
                 /\ ~Shows(g, "info")

\* C5: for a successful HTTP response callAI returns the trimmed
\* choices[0].message.content; when that field is absent at any level,
\* empty or white space, callAI fails with the malformed-response error.
C5_ContentTrimmedOrMalformed ==
    \A r \in Runs :
       LET g == gen[r]
           content == PathContent(g.data)
       IN  (g.pc = "aiSettled" /\ g.data # Undef) =>
              /\ g.ret.ok =>
                    /\ content.t = "str"
                    /\ g.ret.v = Str(Trim(content.v))
                    /\ g.ret.v.v # <<>>
              /\ (Nullish(content) \/ (content.t = "str" /\ Trim(content.v) = <<>>)) =>
                    /\ ~g.ret.ok
                    /\ ErrorSays(g.ret.e, "AI returned response format is incorrect")

\* C6: setCommitMessage signals one error when the Git extension is not
\* found and a distinct one when the repository list is empty, and the
\* caller can tell them apart from the error it receives.
C6_WriteFailuresAreDistinct ==
    \A r \in Runs :
       LET g == gen[r]
       IN  (g.pc = "setSettled" /\ ~g.ret.ok) =>
              IF ~g.gitExtension
              THEN ErrorSays(g.ret.e, "Git extension not found")
              ELSE ErrorSays(g.ret.e, "No Git repository found")

\* C7: in a run that shows the success notification the input box of the
\* first repository holds exactly the trimmed text returned by the AI call
\* of that run, and the notification is shown only after a successful write.
C7_SuccessMeansBoxHoldsMessage ==
    \A r \in Runs :
       LET g == gen[r]
       IN  /\ (g.pc = "aiSettled" /\ g.ret.ok) =>
                 g.ret.v = Str(Trim(PathContent(g.data).v))
           /\ Shows(g, "info") =>
                 /\ g.writes = 1
                 /\ g.commitMessage.t = "str"
                 /\ g.commitMessage.v = Trim(g.commitMessage.v)
                 /\ g.commitMessage.v # <<>>
                 /\ repos # <<>>
                 /\ repos[1] = g.commitMessage.v

C7_Witness ==
    \E r \in Runs :
       /\ gen[r].pc = "ended"
       /\ Shows(gen[r], "info")
       /\ repos = << <<"a">>, <<"o">> >>

\* C8: a step of a generation run changes no setting and no input box but
\* that of the first repository, and changes that one only in the step in
\* which setCommitMessage finds the Git extension and a repository; runs
\* that stop earlier, and writes that fail, leave every box as it was.
GenerationStepFrame ==
    (gen' # gen) =>
       /\ config' = config
       /\ Len(repos') = Len(repos)
       /\ \A i \in DOMAIN repos : i # 1 => repos'[i] = repos[i]
       /\ (repos' # repos) =>
             \E r \in Runs :
                /\ gen[r].pc = "aiSettled"
                /\ gen[r].ret.ok
                /\ gen'[r].pc = "setSettled"
                /\ gen'[r].gitExtension
                /\ gen'[r].ret.ok
                /\ gen'[r].writes = gen[r].writes + 1
                /\ repos'[1] = gen[r].ret.v.v

C8_GenerationFrame == [][GenerationStepFrame]_vars

C8_Witness ==
    \E r \in Runs :
       /\ gen[r].pc = "ended"
       /\ gen[r].commitMessage = Str(<<"a">>)
       /\ gen[r].writes = 0
       /\ Shows(gen[r], "error")
       /\ repos = << <<"o">>, <<"o">> >>

\* a list with at least one entry
NonEmptyList(x) == x.t = "arr" /\ x.v # <<>>

\* the parsing of the models response has run on a body that is an object
ModelsParsed == fm.pc \in {"picking", "unwinding"} /\ fm.data.t = "obj"

EmptyListError == "API returned empty model list or incorrect format"

\* C9 as claimed: the Model Lister uses the first non-empty list among the
\* values at data and models; with data an empty list and models a
\* non-empty list, the entries of models are presented.
C9_FirstNonEmptyList ==
    ModelsParsed =>
       LET d == Field(fm.data, "data")
           m == Field(fm.data, "models")
       IN  IF NonEmptyList(d) THEN fm.models = d
           ELSE IF NonEmptyList(m) THEN fm.models = m
           ELSE ErrorSays(fm.err, EmptyListError)

\* C9 as amended: for a body that is an object the Model Lister uses the
\* first truthy value among data and models: a non-empty list at data is
\* used; an empty list (or any other truthy value) at data is used too,
\* whatever models holds, and the command fails with the empty-list
\* error; the list at models is used only when the value at data is
\* absent or falsy.
C9_FirstTruthyList ==
    ModelsParsed =>
       LET d == Field(fm.data, "data")
           m == Field(fm.data, "models")
       IN  /\ NonEmptyList(d) => fm.models = d
           /\ d = Arr(<<>>) =>
                 /\ fm.models = d
                 /\ fm.pc = "unwinding"
                 /\ fm.quickPicks = 0
                 /\ ErrorSays(fm.err, EmptyListError)
           /\ (Truthy(d) /\ d.t # "arr") =>
                 /\ fm.models = d
                 /\ fm.quickPicks = 0
                 /\ ErrorSays(fm.err, EmptyListError)
           /\ (~Truthy(d) /\ NonEmptyList(m)) => fm.models = m
           /\ (~Truthy(d) /\ ~NonEmptyList(m)) =>
                 /\ fm.pc = "unwinding"
                 /\ ErrorSays(fm.err, EmptyListError)

C9_Witness ==
    /\ fm.pc = "unwinding"
    /\ fm.data = Obj([data |-> Arr(<<>>), models |-> Arr(<<Obj([name |-> Str(<<"l">>)])>>)])
    /\ ErrorSays(fm.err, EmptyListError)

\* the identifier of one entry, as the claim words it
Identifier(e) ==
    IF Truthy(Field(e, "id")) THEN Field(e, "id")
    ELSE IF Truthy(Field(e, "name")) THEN Field(e, "name")
    ELSE e

Identifiers(l) == SelectSeq([i \in DOMAIN l |-> Identifier(l[i])], LAMBDA x : Truthy(x))

\* C10: the identifiers presented are, entry by entry and in order, id if
\* truthy, else name if truthy, else the raw entry; entries whose result
\* is falsy, null and empty-string entries included, are dropped without
\* failing the command.
C10_IdentifiersInOrder ==
    (ModelsParsed /\ NonEmptyList(fm.models)) =>
       /\ fm.pc = "picking"
       /\ fm.err = NoError
       /\ fm.modelNames = Arr(Identifiers(fm.models.v))

\* C11: the single-choice prompt is never shown with an empty list of
\* identifiers: when no identifier is left for selection, every entry
\* dropped as falsy included, the command fails before the prompt is shown.
C11_NeverEmptyChoice ==
    /\ fm.quickPicks > 0 => (fm.pc = "picking" => fm.modelNames.v # <<>>)
    /\ (fm.pc \in {"picking", "unwinding"} /\ fm.models.t = "arr"
           /\ fm.models.v # <<>> /\ Identifiers(fm.models.v) = <<>>) =>
          /\ fm.quickPicks = 0
          /\ fm.err # NoError

\* C12: a step of the fetch-models flow changes no input box and no
\* setting but model; model changes only in the step in which the update
\* of the selected identifier succeeds, and becomes exactly the identifier
\* the user selected among those presented; a cancelled prompt ends
\* without an error and without any message, and a flow that has failed
\* leaves the settings as they were.
FetchModelsStepFrame ==
    (fm' # fm) =>
       /\ repos' = repos
       /\ \A k \in DOMAIN config \ {"model"} : config'[k] = config[k]
       /\ (config' # config) =>
             /\ fm.pc = "updating"
             /\ fm.err = NoError
             /\ fm'.err = NoError
             /\ config'.model = fm.selectedModel
       /\ (fm.pc = "picking" /\ fm'.pc = "updating") =>
             \E i \in DOMAIN fm.modelNames.v : fm'.selectedModel = fm.modelNames.v[i]
       /\ (fm.pc = "picking" /\ fm'.pc = "unwinding") =>
             /\ fm'.selectedModel = Undef
             /\ fm'.err = NoError
       /\ (fm'.pc = "ended" /\ fm.quickPicks = 1 /\ fm.selectedModel = Undef) =>
             /\ fm.err = NoError
             /\ fm'.shown = <<>>
       /\ (fm'.err # NoError) => config' = config
       /\ Shows(fm', "info") => config'.model = fm'.selectedModel

C12_FetchModelsFrame == [][FetchModelsStepFrame]_vars

C12_Witness ==
    /\ fm.pc = "ended"
    /\ fm.selectedModel = Str(<<"l">>)
    /\ config.model = Str(<<"l">>)
    /\ Shows(fm, "info")
    /\ ~Shows(fm, "error")
    /\ repos = << <<"o">> >>

\* the ten languages the Prompt Builder supports
SupportedLanguages ==
    {"English", "Chinese", "Japanese", "Korean", "French", "German",
     "Spanish", "Portuguese", "Russian", "Italian"}

\* the content of the user message of the request a run has just sent
SentPrompt(g) == g.req.body.messages[1].content

\* C13: for every commitLanguage and every diff, the prompt sent to the AI
\* is the template of that language when it is one of the ten supported
\* ones and the English template for any other key, the diff text spliced
\* in unmodified between the two parts of the template.
PromptStep ==
    \A r \in Runs :
       (gen[r].pc = "diffSettled" /\ gen'[r].pc = "fetching") =>
          LET language == config.commitLanguage
              gitDiff == gen[r].ret.v.v
              template == IF language \in SupportedLanguages
                          THEN prompts[language] ELSE prompts.English
          IN  SentPrompt(gen'[r]) = <<template.head>> \o gitDiff \o <<template.tail>>

C13_PromptIsTemplateWithDiff == [][PromptStep]_vars

\* the log of the invocation holds an entry at ERROR level
LogsError(g) == \E i \in DOMAIN g.log : g.log[i].level = "ERROR"

\* C14: in every invocation of either command, under every configured
\* logLevel, a user-facing error message is shown only when the log of
\* that invocation already holds an entry at ERROR level; the only
\* invocation that ends with neither a message nor an ERROR entry is the
\* fetch-models flow whose selection prompt the user cancelled.
C14_ErrorsLoggedBeforeShown ==
    /\ \A r \in Runs :
          /\ Shows(gen[r], "error") => LogsError(gen[r])
          /\ gen[r].pc = "ended" => (gen[r].shown # <<>> \/ LogsError(gen[r]))
    /\ Shows(fm, "error") => LogsError(fm)
    /\ (fm.pc = "ended" /\ fm.shown = <<>> /\ ~LogsError(fm)) =>
          /\ fm.quickPicks = 1
          /\ fm.selectedModel = Undef
          /\ fm.err = NoError

\* the entries of es are those a logger at the configured level emits, and
\* an INFO entry is among them when that level lets INFO pass
LogFollowsSetting(es) ==
    /\ \A i \in DOMAIN es : ~Less(LogLevel[es[i].level], getConfiguredLogLevel(config))
    /\ ~Less(LogLevel.INFO, getConfiguredLogLevel(config)) => es # <<>>

\* C15: every setting is read from the settings store at each use: the
\* request a run sends carries the apiUrl, apiKey and model the store
\* holds when callAI is entered, and the log entries an invocation emits
\* when it starts are those that pass the logLevel the store holds then,
\* also when logLevel was changed after activation.
SettingsStep ==
    /\ \A r \in Runs :
          /\ (gen[r].pc = "diffSettled" /\ gen'[r].pc = "fetching") =>
                /\ gen'[r].req.url = config.apiUrl
                /\ gen'[r].req.authorization = config.apiKey
                /\ gen'[r].req.body.model = config.model
          /\ (gen[r].pc = "idle" /\ gen'[r].pc # "idle") => LogFollowsSetting(gen'[r].log)
    /\ (fm.pc = "idle" /\ fm'.pc = "fetching") => fm'.req.authorization = config.apiKey
    /\ (fm.pc = "idle" /\ fm'.pc # "idle") => LogFollowsSetting(fm'.log)

C15_SettingsReadFresh == [][SettingsStep]_vars

\* C16: the progress accumulated in a run is 25 once diff collection has
\* begun, 50 once the AI call has begun, 75 once the write has begun and
\* 100 at completion; it never decreases and never exceeds 100.
C16_ProgressMilestones ==
    \A r \in Runs :
       LET p == gen[r].progress
       IN  /\ gen[r].pc \in {"execStaged", "execWorking", "diffSettled"} => accumulated(p) = 25
           /\ gen[r].pc \in {"fetching", "readingText", "readingJson", "aiSettled"} =>
                 accumulated(p) = 50
           /\ gen[r].pc = "setSettled" => accumulated(p) = 75
           /\ Shows(gen[r], "info") => accumulated(p) = 100
           /\ \A k \in DOMAIN p :
                 /\ accumulated(SubSeq(p, 1, k - 1)) <= accumulated(SubSeq(p, 1, k))
                 /\ accumulated(SubSeq(p, 1, k)) <= 100

\* s is an initial segment of t
IsPrefix(s, t) == Len(s) <= Len(t) /\ SubSeq(t, 1, Len(s)) = s

\* the run whose frame is g has failed, or the function it awaits has
StageFailed(g) == g.err # NoError \/ ~g.ret.ok

\* C17: within one generation run the stages happen in the order
\* CollectingDiff, CallingAI, WritingCommitBox, each begun only after the
\* previous one has settled without error: at most one staged-diff
\* command, then at most one working-tree command, one HTTP POST only
\* after the diff was collected, one write only after the AI call
\* returned; once a stage has failed the run starts no command, no request
\* and no write.
StageStep ==
    \A r \in Runs :
       LET g == gen[r]
           h == gen'[r]
       IN  (h # g /\ h.pc # "idle") =>
              /\ IsPrefix(h.execs, <<"git diff --cached", "git diff">>)
              /\ IsPrefix(h.progress, <<25, 50, 75, 100>>)
              /\ h.fetches <= 1
              /\ h.writes <= 1
              /\ g.pc # "idle" =>
                    /\ IsPrefix(g.execs, h.execs)
                    /\ IsPrefix(g.progress, h.progress)
                    /\ g.fetches <= h.fetches
                    /\ g.writes <= h.writes
                    /\ h.execs # g.execs => (g.pc = "execStaged" /\ g.fetches = 0 /\ g.writes = 0)
              /\ h.fetches # g.fetches =>
                    /\ g.pc = "diffSettled"
                    /\ g.ret.ok
                    /\ g.execs # <<>>
                    /\ g.writes = 0
              /\ h.writes # g.writes =>
                    /\ g.pc = "aiSettled"
                    /\ g.ret.ok
                    /\ g.fetches = 1
              /\ (g.pc # "idle" /\ StageFailed(g)) =>
                    /\ h.execs = g.execs
                    /\ h.fetches = g.fetches
                    /\ h.writes = g.writes
                    /\ h.progress = g.progress

C17_StagesInOrderOnce == [][StageStep]_vars

C17_Witness ==
    \E r \in Runs :
       /\ gen[r].pc = "ended"
       /\ gen[r].execs = <<"git diff --cached", "git diff">>
       /\ gen[r].fetches = 1
       /\ gen[r].writes = 0
       /\ ErrorSays(gen[r].err, "AI call failed")
       /\ gen[r].progress = <<25, 50>>

\* the diff text spliced into a prompt, between the two parts of a template
DiffOf(prompt) == SubSeq(prompt, 2, Len(prompt) - 1)

\* C18: when two invocations interleave at their awaits, a step of one
\* generation run changes no other frame; the prompt a run sends holds the
\* diff that same run collected, the message it returns is the trimmed
\* content of the response that same run read, and the input box changes
\* only in the write step of a run, to the message of that run, so that
\* the box holds what the run that wrote last has written.
InterleavedStep ==
    /\ \A r \in Pair :
          LET g == gen[r]
              h == gen'[r]
          IN  /\ (h # g) =>
                    /\ \A q \in Pair \ {r} : gen'[q] = gen[q]
                    /\ fm' = fm
              /\ (g.pc = "diffSettled" /\ h.pc = "fetching") =>
                    /\ g.ret.v \in {g.stagedDiff, g.workingDiff}
                    /\ DiffOf(SentPrompt(h)) = g.ret.v.v
              /\ (g.pc = "readingJson" /\ h.pc = "aiSettled" /\ h.ret.ok) =>
                    h.ret.v = Str(Trim(PathContent(h.data).v))
              /\ (h.writes # g.writes) =>
                    /\ g.pc = "aiSettled"
                    /\ g.ret.ok
                    /\ g.ret.v = Str(Trim(PathContent(g.data).v))
                    /\ h.commitMessage = g.ret.v
                    /\ repos'[1] = g.ret.v.v
    /\ (repos' # repos) => \E r \in Pair : gen'[r].writes # gen[r].writes
    /\ (fm' # fm) => (gen' = gen /\ repos' = repos)

C18_RunsAreIsolated == [][InterleavedStep]_vars

\* both runs are suspended after their write: the second has written "aa",
\* then the first has written "a"
C18_Witness ==
    /\ gen[1].pc = "setSettled"
    /\ gen[2].pc = "setSettled"
    /\ gen[1].writes = 1
    /\ gen[2].writes = 1
    /\ gen[1].commitMessage = Str(<<"a">>)
    /\ gen[2].commitMessage = Str(<<"a", "a">>)
    /\ repos[1] \in {<<"a">>, <<"a", "a">>}

====
